---- MODULE Spec2Model ----
(***************************************************************************)
(* Model of the product form of src/components/ProductForm.tsx: the image  *)
(* working set (existingImages, newImageFiles, imagesToDelete), the user   *)
(* handlers (onDrop, removeNewImage, removeExistingImage) and the          *)
(* asynchronous handleSubmit with its delete phase, upload phase and       *)
(* record-store write; the edit page that mounts the form                  *)
(* (src/app/edit/[id]/page.tsx); and the product list with its delete      *)
(* handler (src/components/ProductList.tsx).                               *)
(*                                                                         *)
(* A URL, a storage path and a file name are sequences of tokens; the      *)
(* token "/" (resp. ".") is the separator that String.split works on.      *)
(***************************************************************************)
EXTENDS Integers, Sequences, FiniteSets, TLC

\* ---------------------------------------------------------------- bounds
MaxImages == 2      \* length of the image list of the loaded product
MaxFiles == 2       \* files dropped during one form session
MaxSubmits == 2     \* submissions during one form session
MaxDeletes == 3     \* clicks on Delete during one visit of the product list

\* ------------------------------------------------------------ input sets
UrlA == <<"https:", "/", "cdn", "/", "a.png">>
UrlB == <<"https:", "/", "cdn", "/", "b.png">>
UrlDir == <<"https:", "/", "cdn", "/", "dir", "/">>
Urls == {UrlA, UrlB, UrlDir}

FilePng == <<"cat", ".", "min", ".", "png">>
FileNames == {FilePng}

ProductIds == {0, 7}

\* values of the price field: Number(e.target.value) of an <input
\* type="number"> without min
PriceInputs == {-5, 0, 3}

\* ids of the rows of the products table the list page shows
RowIds == {0, 1, 2}

Null == <<>>

SeqsUpTo(S, n) == UNION {[1..k -> S] : k \in 0..n}

\* ------------------------------------------------------------ pure helpers
\* Array.prototype.pop() of String.prototype.split(sep): the tokens after
\* the last separator (the whole sequence when there is no separator).
RECURSIVE SplitPop(_, _)
SplitPop(s, sep) ==
  IF s = <<>> THEN <<>>
  ELSE IF s[Len(s)] = sep THEN <<>>
  ELSE Append(SplitPop(SubSeq(s, 1, Len(s) - 1), sep), s[Len(s)])

DeletePathWholeUrl(imageUrl) == <<"products", "/">> \o imageUrl

\* `products/${fileName}` of deleteOldImages
DeletePath(imageUrl) == <<"products", "/">> \o SplitPop(imageUrl, "/")

\* `${uuidv4()}.${fileExt}` under products/ of uploadImages; the uuid is the
\* n-th fresh identifier
UploadPath(fileName, n) ==
  <<"products", "/", ToString(n), ".">> \o SplitPop(fileName, ".")

\* storage.getPublicUrl(filePath).publicUrl
PublicUrl(filePath) == <<"https:", "/", "cdn", "/">> \o filePath

\* URL.createObjectURL: a fresh blob reference per call
ObjectUrl(n) == <<"blob:", ToString(n)>>

RemoveLast(s, i) == SubSeq(s, 1, Len(s) - 1)

\* Array.prototype.filter((_, index) => index !== indexToRemove)
RemoveAt(s, i) == SubSeq(s, 1, i - 1) \o SubSeq(s, i + 1, Len(s))

\* url !== null
IsString(url) == url # Null

FilterUrlsRev(results) ==
  LET kept == SelectSeq(results, IsString)
  IN [i \in 1..Len(kept) |-> kept[Len(kept) + 1 - i]]

\* (await Promise.all(uploadPromises)).filter(url => url !== null)
FilterUrls(results) == SelectSeq(results, IsString)

FinalImagesExistingOnly(existing, uploaded) == existing

\* [...existingImages, ...newUploadedUrls]
FinalImages(existing, uploaded) == existing \o uploaded

\* the elements of a sequence, as a set
Range(s) == {s[k] : k \in 1..Len(s)}

\* a list without the elements of a set, the other elements in their order
Without(s, S) == LET keep(x) == x \notin S IN SelectSeq(s, keep)

\* ------------------------------------------------------------------ state
VARIABLES
  initialProduct,   \* the prop: [defined, hasId, id, images]
  existingImages,   \* useState<string[]>
  newImageFiles,    \* useState<{file, preview}[]>
  imagesToDelete,   \* useState<string[]>
  isLoading,        \* useState(false)
  nextPreview,      \* number of createObjectURL calls so far
  livePreviews,     \* object URLs created and not yet revoked
  pc,               \* position of handleSubmit: idle, deleting, uploading, writing
  sub,              \* state captured by the closure of the running handleSubmit
  removeCalls,      \* paths passed to storage.remove in this submit, in call order
  deleteState,      \* per entry of sub.imagesToDelete: none, pending, ok, err
  nextUuid,         \* number of uuidv4 calls so far
  uploadPath,       \* per entry of sub.newImageFiles: filePath passed to storage.upload
  uploadState,      \* per entry of sub.newImageFiles: pending, ok, err
  uploadResult,     \* per entry: value its promise resolved with (Null on error)
  writeCalls,       \* record-store writes issued in this submit, in call order
  writeState,       \* none, pending, ok, err
  pushed,           \* router.push('/') was called in this submit
  submitResult,     \* the promise of handleSubmit: none, pending, resolved, rejected
  submitCount,      \* submissions started so far
  page,             \* the page that mounted the form: [view, id]
  price,            \* useState(initialProduct?.price || 0)
  lastRun,          \* history: the last submit, if every store call of it
                    \* succeeded and nothing was edited since
  unwritten,        \* history: the oldest URL whose upload succeeded in a
                    \* submit whose write failed, until a write succeeds
  products,         \* ProductList: useState<Product[]>, as the list of ids
  listLoading,      \* ProductList: useState(true)
  listDeletes       \* ProductList: the handleDelete calls so far, each with
                    \* the products its closure captured and its store result

formState == <<initialProduct, existingImages, newImageFiles, imagesToDelete,
               isLoading, nextPreview, livePreviews, pc, sub, removeCalls,
               deleteState, nextUuid, uploadPath, uploadState, uploadResult,
               writeCalls, writeState, pushed, submitResult, submitCount,
               page, price, lastRun, unwritten>>

listVars == <<products, listLoading, listDeletes>>

vars == <<formState, listVars>>

histVars == <<lastRun, unwritten>>

formVars == <<existingImages, newImageFiles, imagesToDelete, isLoading>>
previewVars == <<nextPreview, livePreviews>>
deleteVars == <<removeCalls, deleteState>>
uploadVars == <<nextUuid, uploadPath, uploadState, uploadResult>>
writeVars == <<writeCalls, writeState>>
outcomeVars == <<pushed, submitResult>>

NoId == -1

\* the Product values the edit page loads and passes to the form: a stored
\* record, which carries the id the record store assigned
Products ==
  {[defined |-> TRUE, hasId |-> TRUE, id |-> i, images |-> imgs] :
     i \in ProductIds, imgs \in SeqsUpTo(Urls, MaxImages)}

\* the create page mounts the form without initialProduct
NoProduct == [defined |-> FALSE, hasId |-> FALSE, id |-> 0, images |-> <<>>]

\* no record: the select of the edit page returned an error or no row
NoRecord == [defined |-> FALSE, hasId |-> FALSE, id |-> -1, images |-> <<>>]

\* EditProductPage: <ProductForm initialProduct={data || undefined} />
EditProductPage(data) == IF data = NoRecord THEN NoProduct ELSE data

\* the create view mounts the form without initialProduct
CreatePage == [view |-> "create", id |-> NoId]

EditPages == {[view |-> "edit", id |-> i] : i \in ProductIds}

\* what select('*').eq('id', id).single() can return for the edit page
LoadResults(id) == {NoRecord} \cup {p \in Products : p.id = id}

NoRun == [valid |-> FALSE, existing |-> <<>>]

NoClosure == [existingImages |-> <<>>, newImageFiles |-> <<>>,
              imagesToDelete |-> <<>>, price |-> 0]

\* the list page before its visit
ListIdle ==
  /\ products = <<>>
  /\ listLoading = TRUE
  /\ listDeletes = <<>>

\* the form as the page mounts it with initialProduct and a price
FormMounted ==
  /\ existingImages = initialProduct.images
  /\ newImageFiles = <<>>
  /\ imagesToDelete = <<>>
  /\ isLoading = FALSE
  /\ nextPreview = 0
  /\ livePreviews = {}
  /\ pc = "idle"
  /\ sub = NoClosure
  /\ removeCalls = <<>>
  /\ deleteState = <<>>
  /\ nextUuid = 0
  /\ uploadPath = <<>>
  /\ uploadState = <<>>
  /\ uploadResult = <<>>
  /\ writeCalls = <<>>
  /\ writeState = "none"
  /\ pushed = FALSE
  /\ submitResult = "none"
  /\ submitCount = 0
  /\ lastRun = NoRun
  /\ unwritten = Null

\* the create page, or the edit page of a product after its load; the price
\* field stays at 0 in this specification (SpecPrice edits it)
Init ==
  /\ page \in {CreatePage} \cup EditPages
  /\ IF page.view = "create"
     THEN initialProduct = NoProduct
     ELSE \E data \in LoadResults(page.id) : initialProduct = EditProductPage(data)
  /\ price = 0
  /\ FormMounted
  /\ ListIdle

\* ----------------------------------------------------------- user handlers
\* onDrop: the dropzone root takes drops whatever isLoading is; only the
\* <input> element is disabled while loading.
onDrop(acceptedFiles) ==
  /\ nextPreview + Len(acceptedFiles) <= MaxFiles
  /\ LET newImagePreviews ==
           [k \in 1..Len(acceptedFiles) |->
              [file |-> acceptedFiles[k], preview |-> ObjectUrl(nextPreview + k)]]
     IN /\ newImageFiles' = newImageFiles \o newImagePreviews
        /\ livePreviews' = livePreviews \cup
              {newImagePreviews[k].preview : k \in 1..Len(acceptedFiles)}
  /\ nextPreview' = nextPreview + Len(acceptedFiles)
  /\ lastRun' = IF pc = "idle" THEN NoRun ELSE lastRun
  /\ UNCHANGED unwritten
  /\ UNCHANGED <<initialProduct, page, price, listVars, existingImages, imagesToDelete, isLoading,
                 pc, sub, deleteVars, uploadVars, writeVars, outcomeVars, submitCount>>

\* removeNewImage: its button is disabled while isLoading
removeNewImage(indexToRemove) ==
  /\ ~isLoading
  /\ indexToRemove \in 1..Len(newImageFiles)
  /\ livePreviews' = livePreviews \ {newImageFiles[indexToRemove].preview}
  /\ newImageFiles' = RemoveAt(newImageFiles, indexToRemove)
  /\ lastRun' = NoRun
  /\ UNCHANGED unwritten
  /\ UNCHANGED <<initialProduct, page, price, listVars, existingImages, imagesToDelete, isLoading,
                 nextPreview, pc, sub, deleteVars, uploadVars, writeVars,
                 outcomeVars, submitCount>>

removeExistingImageEager(indexToRemove) ==
  /\ ~isLoading
  /\ indexToRemove \in 1..Len(existingImages)
  /\ imagesToDelete' = Append(imagesToDelete, existingImages[indexToRemove])
  /\ existingImages' = RemoveAt(existingImages, indexToRemove)
  /\ removeCalls' = Append(removeCalls, DeletePath(existingImages[indexToRemove]))
  /\ lastRun' = NoRun
  /\ UNCHANGED unwritten
  /\ UNCHANGED <<initialProduct, page, price, listVars, newImageFiles, isLoading, previewVars, pc,
                 sub, deleteState, uploadVars, writeVars, outcomeVars, submitCount>>

\* removeExistingImage: its button is disabled while isLoading
removeExistingImage(indexToRemove) ==
  /\ ~isLoading
  /\ indexToRemove \in 1..Len(existingImages)
  /\ imagesToDelete' = Append(imagesToDelete, existingImages[indexToRemove])
  /\ existingImages' = RemoveAt(existingImages, indexToRemove)
  /\ lastRun' = NoRun
  /\ UNCHANGED unwritten
  /\ UNCHANGED <<initialProduct, page, price, listVars, newImageFiles, isLoading, previewVars, pc,
                 sub, deleteVars, uploadVars, writeVars, outcomeVars, submitCount>>

\* onChange of the price input: setPrice(Number(e.target.value)); the input
\* stays enabled while isLoading
setPrice(value) ==
  /\ value # price
  /\ price' = value
  /\ lastRun' = IF pc = "idle" THEN NoRun ELSE lastRun
  /\ UNCHANGED <<initialProduct, page, listVars, formVars, previewVars, pc, sub,
                 deleteVars, uploadVars, writeVars, outcomeVars, submitCount,
                 unwritten>>

\* ------------------------------------------------------------ handleSubmit
Pending == <<"pending">>

SubmitAlwaysEnabled == TRUE

\* <button type="submit" disabled={isLoading}>
SubmitEnabled == ~isLoading

\* if (fileName) of deleteOldImages
DeleteIssued(imageUrl) == SplitPop(imageUrl, "/") # <<>>

\* if (initialProduct?.id)
IdTruthy(p) == p.defined /\ p.hasId /\ p.id # 0

NoKey == -1

DeletesNotAwaited == TRUE

\* await Promise.all(deletePromises)
DeletesSettled == \A i \in 1..Len(deleteState) : deleteState[i] # "pending"

\* await Promise.all(uploadPromises)
UploadsSettled == \A i \in 1..Len(uploadState) : uploadState[i] # "pending"

\* what handleSubmit leaves behind when it returns: its closure and the
\* promises of its store calls are gone
ClosureDropped ==
  /\ sub' = NoClosure
  /\ removeCalls' = <<>>
  /\ deleteState' = <<>>
  /\ uploadPath' = <<>>
  /\ uploadState' = <<>>
  /\ uploadResult' = <<>>
  /\ writeCalls' = <<>>

FinallyKeepsDeletions ==
  /\ livePreviews' = livePreviews \
        {sub.newImageFiles[k].preview : k \in 1..Len(sub.newImageFiles)}
  /\ isLoading' = FALSE
  /\ newImageFiles' = <<>>
  /\ imagesToDelete' = imagesToDelete
  /\ pc' = "idle"
  /\ submitResult' = "resolved"
  /\ ClosureDropped

\* the finally block, after which handleSubmit returns
Finally ==
  /\ livePreviews' = livePreviews \
        {sub.newImageFiles[k].preview : k \in 1..Len(sub.newImageFiles)}
  /\ isLoading' = FALSE
  /\ newImageFiles' = <<>>
  /\ imagesToDelete' = <<>>
  /\ pc' = "idle"
  /\ submitResult' = "resolved"
  /\ ClosureDropped

\* the submit event: setIsLoading(true), then deleteOldImages() runs up to its
\* await, which issues every storage.remove call
handleSubmit ==
  /\ SubmitEnabled
  /\ submitCount < MaxSubmits
  /\ isLoading' = TRUE
  /\ sub' = [existingImages |-> existingImages,
             newImageFiles |-> newImageFiles,
             imagesToDelete |-> imagesToDelete,
             price |-> price]
  /\ LET issued == SelectSeq(imagesToDelete, DeleteIssued)
     IN removeCalls' = [k \in 1..Len(issued) |-> DeletePath(issued[k])]
  /\ deleteState' = [k \in 1..Len(imagesToDelete) |->
                       IF DeleteIssued(imagesToDelete[k]) THEN "pending" ELSE "none"]
  /\ uploadPath' = <<>>
  /\ uploadState' = <<>>
  /\ uploadResult' = <<>>
  /\ writeCalls' = <<>>
  /\ writeState' = "none"
  /\ pushed' = FALSE
  /\ submitResult' = "pending"
  /\ submitCount' = submitCount + 1
  /\ pc' = "deleting"
  /\ UNCHANGED histVars
  /\ UNCHANGED <<initialProduct, page, price, listVars, existingImages, newImageFiles, imagesToDelete,
                 previewVars, nextUuid>>

\* one storage.remove call returns; an error is passed to console.error and
\* to nothing else
DeleteSettles(i, ok) ==
  /\ i \in 1..Len(deleteState)
  /\ deleteState[i] = "pending"
  /\ deleteState' = [deleteState EXCEPT ![i] = IF ok THEN "ok" ELSE "err"]
  /\ UNCHANGED histVars
  /\ UNCHANGED <<initialProduct, page, price, listVars, formVars, previewVars, pc, sub, removeCalls,
                 uploadVars, writeVars, outcomeVars, submitCount>>

\* deleteOldImages() has resolved: uploadImages() runs up to its await, which
\* names every file and issues every storage.upload call
StartUploads ==
  /\ pc = "deleting"
  /\ DeletesSettled
  /\ LET n == Len(sub.newImageFiles)
     IN /\ uploadPath' = [k \in 1..n |->
                            UploadPath(sub.newImageFiles[k].file, nextUuid + k)]
        /\ uploadState' = [k \in 1..n |-> "pending"]
        /\ uploadResult' = [k \in 1..n |-> Pending]
        /\ nextUuid' = nextUuid + n
  /\ pc' = "uploading"
  /\ UNCHANGED histVars
  /\ UNCHANGED <<initialProduct, page, price, listVars, formVars, previewVars, sub, deleteVars,
                 writeVars, outcomeVars, submitCount>>

UploadSettlesThrows(i, ok) ==
  /\ i \in 1..Len(uploadState)
  /\ uploadState[i] = "pending"
  /\ IF ok
     THEN /\ uploadState' = [uploadState EXCEPT ![i] = "ok"]
          /\ uploadResult' = [uploadResult EXCEPT ![i] = PublicUrl(uploadPath[i])]
          /\ UNCHANGED <<formVars, livePreviews, pc, sub, deleteVars, uploadPath,
                         writeCalls, submitResult>>
     ELSE /\ Finally
          /\ UNCHANGED existingImages
  /\ UNCHANGED histVars
  /\ UNCHANGED <<initialProduct, page, price, listVars, nextPreview, nextUuid, writeState, pushed,
                 submitCount>>

UploadSettlesYieldsPreview(i, ok) ==
  /\ i \in 1..Len(uploadState)
  /\ uploadState[i] = "pending"
  /\ uploadState' = [uploadState EXCEPT ![i] = IF ok THEN "ok" ELSE "err"]
  /\ uploadResult' = [uploadResult EXCEPT
                        ![i] = IF ok THEN sub.newImageFiles[i].preview ELSE Null]
  /\ UNCHANGED histVars
  /\ UNCHANGED <<initialProduct, page, price, listVars, formVars, previewVars, pc, sub, deleteVars,
                 nextUuid, uploadPath, writeVars, outcomeVars, submitCount>>

\* one storage.upload call returns; its promise resolves with the public URL,
\* or the error is passed to console.error and it resolves with null
UploadSettles(i, ok) ==
  /\ i \in 1..Len(uploadState)
  /\ uploadState[i] = "pending"
  /\ uploadState' = [uploadState EXCEPT ![i] = IF ok THEN "ok" ELSE "err"]
  /\ uploadResult' = [uploadResult EXCEPT
                        ![i] = IF ok THEN PublicUrl(uploadPath[i]) ELSE Null]
  /\ UNCHANGED histVars
  /\ UNCHANGED <<initialProduct, page, price, listVars, formVars, previewVars, pc, sub, deleteVars,
                 nextUuid, uploadPath, writeVars, outcomeVars, submitCount>>

\* uploadImages() has resolved: finalImages is computed and the update or the
\* insert is issued
IssueWrite ==
  /\ pc = "uploading"
  /\ UploadsSettled
  /\ LET newUploadedUrls == FilterUrls(uploadResult)
         finalImages == FinalImages(sub.existingImages, newUploadedUrls)
     IN writeCalls' = Append(writeCalls,
          IF IdTruthy(initialProduct)
          THEN [op |-> "update", key |-> initialProduct.id, price |-> sub.price,
                images |-> finalImages]
          ELSE [op |-> "insert", key |-> NoKey, price |-> sub.price,
                images |-> finalImages])
  /\ writeState' = "pending"
  /\ pc' = "writing"
  /\ UNCHANGED histVars
  /\ UNCHANGED <<initialProduct, page, price, listVars, formVars, previewVars, sub, deleteVars,
                 uploadVars, outcomeVars, submitCount>>

\* the first URL of uploadedUrls of the submit in flight, if any
FirstUploaded ==
  LET uploadedUrls == FilterUrls(uploadResult)
  IN  IF uploadedUrls = <<>> THEN Null ELSE uploadedUrls[1]

WriteSettlesKeepsFinal(ok) ==
  /\ pc = "writing"
  /\ writeState = "pending"
  /\ writeState' = IF ok THEN "ok" ELSE "err"
  /\ pushed' = ok
  /\ Finally
  /\ lastRun' = IF /\ ok
                   /\ \A k \in 1..Len(deleteState) : deleteState[k] # "err"
                   /\ \A k \in 1..Len(uploadState) : uploadState[k] = "ok"
                THEN [valid |-> TRUE,
                      existing |-> Without(writeCalls[1].images, Range(uploadResult))]
                ELSE NoRun
  /\ unwritten' = IF ok THEN Null
                  ELSE IF unwritten # Null THEN unwritten ELSE FirstUploaded
  /\ UNCHANGED <<initialProduct, page, price, listVars, nextPreview, nextUuid,
                 submitCount>>
  /\ existingImages' = writeCalls[1].images

\* the update or insert returns: router.push('/'), or throw, catch and
\* console.error; then the finally block
WriteSettles(ok) ==
  /\ pc = "writing"
  /\ writeState = "pending"
  /\ writeState' = IF ok THEN "ok" ELSE "err"
  /\ pushed' = ok
  /\ Finally
  /\ lastRun' = IF /\ ok
                   /\ \A k \in 1..Len(deleteState) : deleteState[k] # "err"
                   /\ \A k \in 1..Len(uploadState) : uploadState[k] = "ok"
                THEN [valid |-> TRUE,
                      existing |-> Without(writeCalls[1].images, Range(uploadResult))]
                ELSE NoRun
  /\ unwritten' = IF ok THEN Null
                  ELSE IF unwritten # Null THEN unwritten ELSE FirstUploaded
  /\ UNCHANGED <<initialProduct, page, price, listVars, existingImages, nextPreview, nextUuid,
                 submitCount>>

\* ---------------------------------------------------------- specification
Next ==
  \/ \E acceptedFiles \in SeqsUpTo(FileNames, MaxFiles) \ {<<>>} : onDrop(acceptedFiles)
  \/ \E i \in 1..MaxFiles : removeNewImage(i)
  \/ \E i \in 1..MaxImages : removeExistingImage(i)
  \/ handleSubmit
  \/ \E i \in 1..MaxImages : \E ok \in BOOLEAN : DeleteSettles(i, ok)
  \/ StartUploads
  \/ \E i \in 1..MaxFiles : \E ok \in BOOLEAN : UploadSettles(i, ok)
  \/ IssueWrite
  \/ \E ok \in BOOLEAN : WriteSettles(ok)

Spec == Init /\ [][Next]_vars

\* the price field: a form without existing images, whose price the user
\* edits; a loaded product brings its stored price
LoadedPrices == {0, 3}

InitPrice ==
  /\ page \in {CreatePage} \cup EditPages
  /\ IF page.view = "create"
     THEN initialProduct = NoProduct /\ price = 0
     ELSE /\ \E data \in {d \in LoadResults(page.id) : d.images = <<>>} :
               initialProduct = EditProductPage(data)
          /\ price \in LoadedPrices
  /\ FormMounted
  /\ ListIdle

NextPrice ==
  \/ \E value \in PriceInputs : setPrice(value)
  \/ \E acceptedFiles \in SeqsUpTo(FileNames, MaxFiles) \ {<<>>} : onDrop(acceptedFiles)
  \/ \E i \in 1..MaxFiles : removeNewImage(i)
  \/ handleSubmit
  \/ StartUploads
  \/ \E i \in 1..MaxFiles : \E ok \in BOOLEAN : UploadSettles(i, ok)
  \/ IssueWrite
  \/ \E ok \in BOOLEAN : WriteSettles(ok)

SpecPrice == InitPrice /\ [][NextPrice]_vars

\* ------------------------------------------------------------- ProductList
\* products.filter(p => p.id !== productId)
FilterOut(list, productId) ==
  LET keep(id) == id # productId IN SelectSeq(list, keep)

\* what the select of fetchProducts can return: rows with distinct ids
RowLists ==
  {rows \in SeqsUpTo(RowIds, Cardinality(RowIds)) :
     \A i, j \in 1..Len(rows) : i # j => rows[i] # rows[j]}

\* fetchProducts: setProducts(data || []) or the error is logged; then
\* setIsLoading(false)
FetchSettles(ok, rows) ==
  /\ listLoading
  /\ products' = IF ok THEN rows ELSE products
  /\ listLoading' = FALSE
  /\ UNCHANGED <<formState, listDeletes>>

\* a click on Delete: product.id && handleDelete(product.id) issues the
\* store delete; the closure holds the products of the render that made it
handleDelete(productId) ==
  /\ ~listLoading
  /\ productId \in Range(products)
  /\ productId # 0
  /\ Len(listDeletes) < MaxDeletes
  /\ listDeletes' = Append(listDeletes,
        [id |-> productId, closure |-> products, state |-> "pending"])
  /\ UNCHANGED <<formState, products, listLoading>>

\* the store delete returns: setProducts(products.filter(...)) with the
\* products of the closure, or the error is logged
ListDeleteSettles(k, ok) ==
  /\ k \in 1..Len(listDeletes)
  /\ listDeletes[k].state = "pending"
  /\ listDeletes' = [listDeletes EXCEPT ![k].state = IF ok THEN "ok" ELSE "err"]
  /\ products' = IF ok THEN FilterOut(listDeletes[k].closure, listDeletes[k].id)
                 ELSE products
  /\ UNCHANGED <<formState, listLoading>>

InitList ==
  /\ page = CreatePage
  /\ initialProduct = NoProduct
  /\ price = 0
  /\ FormMounted
  /\ ListIdle

NextList ==
  \/ \E ok \in BOOLEAN : \E rows \in RowLists : FetchSettles(ok, rows)
  \/ \E productId \in RowIds : handleDelete(productId)
  \/ \E k \in 1..MaxDeletes : \E ok \in BOOLEAN : ListDeleteSettles(k, ok)

SpecList == InitList /\ [][NextList]_vars

\* ------------------------------------------------------------------ types
TypeOK ==
  /\ isLoading \in BOOLEAN
  /\ pc \in {"idle", "deleting", "uploading", "writing"}
  /\ writeState \in {"none", "pending", "ok", "err"}
  /\ submitResult \in {"none", "pending", "resolved", "rejected"}
  /\ Len(writeCalls) <= 1
  /\ nextPreview \in 0..MaxFiles
  /\ nextUuid \in 0..MaxFiles
  /\ submitCount \in 0..MaxSubmits
  /\ page \in {CreatePage} \cup EditPages
  /\ price \in PriceInputs \cup LoadedPrices
  /\ lastRun.valid \in BOOLEAN
  /\ listLoading \in BOOLEAN
  /\ Range(products) \subseteq RowIds
  /\ Len(listDeletes) <= MaxDeletes

\* ------------------------------------------------------- claim vocabulary
CountIn(s, x) == Cardinality({k \in 1..Len(s) : s[k] = x})

HeldPreviews == {newImageFiles[k].preview : k \in 1..Len(newImageFiles)}

SubmitDone == pc = "idle" /\ submitCount > 0

\* the last "/"-separated segment of a URL: its longest suffix without "/"
LastSegment(url) ==
  LET n == Len(url)
      starts == {k \in 1..(n + 1) : \A j \in k..n : url[j] # "/"}
      first == CHOOSE k \in starts : \A m \in starts : k <= m
  IN SubSeq(url, first, n)

ExpectedDeletePath(url) == <<"products", "/">> \o LastSegment(url)

\* the public URLs of the uploads among the first n entries that succeeded,
\* in entry order
RECURSIVE SucceededUrls(_)
SucceededUrls(n) ==
  IF n = 0 THEN <<>>
  ELSE IF uploadState[n] = "ok"
       THEN Append(SucceededUrls(n - 1), PublicUrl(uploadPath[n]))
       ELSE SucceededUrls(n - 1)

\* ------------------------------------------------------------------ claims
\* C1: no URL is at the same time an element of existingImages and an
\* element of imagesToDelete (pendingDeletions).
C1_NoUrlInBoth == Range(existingImages) \cap Range(imagesToDelete) = {}

\* C2: when the record-store write of a submit returned an error, the
\* submit ends in an error outcome for its caller (its promise rejects); the
\* error is not swallowed inside handleSubmit.
C2_WriteErrorSurfaced ==
  (SubmitDone /\ writeState = "err") => submitResult = "rejected"

\* C3: an upload has been issued only if every delete of the submit has
\* settled, and the record-store write has been issued only if the upload
\* phase has run and every upload has settled.
C3_PhasesOrdered ==
  /\ (pc \in {"uploading", "writing"} \/ uploadPath # <<>>) =>
        \A i \in 1..Len(deleteState) : deleteState[i] \in {"none", "ok", "err"}
  /\ (pc = "writing" \/ writeCalls # <<>>) =>
        /\ \A i \in 1..Len(deleteState) : deleteState[i] \in {"none", "ok", "err"}
        /\ Len(uploadState) = Len(sub.newImageFiles)
        /\ \A i \in 1..Len(uploadState) : uploadState[i] \in {"ok", "err"}

C3_Witness ==
  /\ pc = "writing"
  /\ Len(uploadState) >= 2
  /\ \E i, j \in 1..Len(deleteState) :
        deleteState[i] = "ok" /\ deleteState[j] = "err"

\* C4: the image list written to the record store is existingImages in
\* their current order followed by the public URLs of exactly the
\* pendingUploads entries whose upload succeeded, in entry order.
C4_FinalImages ==
  /\ pc # "idle" =>
        /\ existingImages = sub.existingImages
        /\ Len(newImageFiles) >= Len(sub.newImageFiles)
        /\ SubSeq(newImageFiles, 1, Len(sub.newImageFiles)) = sub.newImageFiles
  /\ \A k \in 1..Len(writeCalls) :
        /\ writeCalls[k].images =
              sub.existingImages \o SucceededUrls(Len(uploadState))
        /\ \A i \in 1..Len(uploadState) :
              uploadPath[i] = UploadPath(sub.newImageFiles[i].file,
                                         nextUuid - Len(uploadState) + i)

C4_Witness ==
  /\ pc = "writing"
  /\ Len(existingImages) >= 1
  /\ Len(uploadState) = 2
  /\ uploadState[1] = "ok" /\ uploadState[2] = "ok"
  /\ Len(writeCalls[1].images) = Len(existingImages) + 2

\* C5: object-store errors do not abort a submit: the step that ends a
\* submit is taken only after every delete and every upload was attempted and
\* has settled and the write was issued, and it ends with the navigation
\* when the write succeeded.
C5_StoreErrorsDoNotAbort ==
  [][(pc # "idle" /\ pc' = "idle") =>
        /\ Len(deleteState) = Len(sub.imagesToDelete)
        /\ \A i \in 1..Len(deleteState) :
              /\ deleteState[i] \in {"none", "ok", "err"}
              /\ deleteState[i] = "none" => LastSegment(sub.imagesToDelete[i]) = <<>>
        /\ Len(uploadState) = Len(sub.newImageFiles)
        /\ \A i \in 1..Len(uploadState) : uploadState[i] \in {"ok", "err"}
        /\ Len(writeCalls) = 1
        /\ writeState' \in {"ok", "err"}
        /\ writeState' = "ok" => pushed']_vars

C5_Witness ==
  /\ pc = "writing"
  /\ Len(writeCalls) = 1
  /\ \E i, j \in 1..Len(deleteState) :
        deleteState[i] = "err" /\ deleteState[j] = "ok"
  /\ \E i, j \in 1..Len(uploadState) :
        uploadState[i] = "err" /\ uploadState[j] = "ok"

\* C6: when no submission is in flight, the preview references created and
\* not yet released are exactly the previews held by the entries of
\* newImageFiles (pendingUploads).
C6_PreviewsBalanced == pc = "idle" => livePreviews = HeldPreviews

\* C7: the step that completes a submit, on success and on failure, leaves
\* newImageFiles and imagesToDelete empty, the busy flag cleared, and
\* existingImages at the value it had when the submit began.
C7_CleanupFrame ==
  [][(pc # "idle" /\ pc' = "idle") =>
        /\ newImageFiles' = <<>>
        /\ imagesToDelete' = <<>>
        /\ isLoading' = FALSE
        /\ existingImages' = sub.existingImages]_vars

C7_Witness ==
  /\ SubmitDone
  /\ submitCount = 1
  /\ writeState = "err"
  /\ Len(existingImages) < Len(initialProduct.images)
  /\ nextUuid >= 1
  /\ nextPreview > nextUuid
  /\ newImageFiles = <<>> /\ imagesToDelete = <<>> /\ ~isLoading

\* C8: no submit starts while the busy flag is set, and the flag is set for
\* exactly the time a submission is in flight.
C8_OneSubmitInFlight ==
  [][/\ isLoading => submitCount' = submitCount
     /\ isLoading <=> pc # "idle"]_vars

C8_Witness == isLoading /\ pc = "uploading" /\ submitCount = 2

\* C9: a submit issues at most one record-store write; it is an update
\* keyed by the product id when the form was seeded with a product that has
\* an id (whatever the id), and an insert without id otherwise.
C9_WriteKind ==
  /\ Len(writeCalls) <= 1
  /\ \A k \in 1..Len(writeCalls) :
        IF initialProduct.defined /\ initialProduct.hasId
        THEN writeCalls[k].op = "update" /\ writeCalls[k].key = initialProduct.id
        ELSE writeCalls[k].op = "insert" /\ writeCalls[k].key = NoKey

\* C10 as stated: for every entry of pendingDeletions at submit exactly one
\* delete is issued, with path products/ + last segment of the URL, and no
\* other delete is issued.
C10_Original ==
  pc # "idle" =>
    \A p \in Range(removeCalls) \cup
             {ExpectedDeletePath(u) : u \in Range(sub.imagesToDelete)} :
       CountIn(removeCalls, p) =
          Cardinality({k \in 1..Len(sub.imagesToDelete) :
                         ExpectedDeletePath(sub.imagesToDelete[k]) = p})

\* C10 as amended: for every entry of pendingDeletions at submit whose URL
\* has a non-empty last segment exactly one delete is issued, with path
\* products/ + that segment; none is issued for an entry whose URL ends in
\* "/", and no other delete is issued.
C10_DeletesIssued ==
  pc # "idle" =>
    \A p \in Range(removeCalls) \cup
             {ExpectedDeletePath(u) : u \in Range(sub.imagesToDelete)} :
       CountIn(removeCalls, p) =
          Cardinality({k \in 1..Len(sub.imagesToDelete) :
                         /\ LastSegment(sub.imagesToDelete[k]) # <<>>
                         /\ ExpectedDeletePath(sub.imagesToDelete[k]) = p})

C10_Witness ==
  /\ pc = "deleting"
  /\ sub.imagesToDelete = <<UrlDir, UrlA>>
  /\ removeCalls = <<ExpectedDeletePath(UrlA)>>

\* C11: a removeExistingImage(i) step leaves the removed URL exactly once in
\* imagesToDelete and not at all in existingImages, keeps the other elements
\* of existingImages in their relative order, and leaves newImageFiles
\* unchanged.
C11_RemoveExisting ==
  [][existingImages' # existingImages =>
        \E i \in 1..Len(existingImages) :
           /\ existingImages' = SubSeq(existingImages, 1, i - 1) \o
                                SubSeq(existingImages, i + 1, Len(existingImages))
           /\ CountIn(imagesToDelete', existingImages[i]) = 1
           /\ existingImages[i] \notin Range(existingImages')
           /\ newImageFiles' = newImageFiles]_vars

\* C14: every element of a written image list is a URL of existingImages or
\* the public URL of an upload that succeeded in this submit; no object URL
\* created for a preview is among them.
C14_NoPreviewWritten ==
  \A k \in 1..Len(writeCalls) :
     \A u \in Range(writeCalls[k].images) :
        /\ \/ u \in Range(existingImages)
           \/ \E i \in 1..Len(uploadState) :
                 uploadState[i] = "ok" /\ u = PublicUrl(uploadPath[i])
        /\ \A n \in 1..nextPreview : u # ObjectUrl(n)

C14_Witness ==
  /\ pc = "writing"
  /\ Len(existingImages) >= 1
  /\ \E i, j \in 1..Len(uploadState) :
        uploadState[i] = "ok" /\ uploadState[j] = "err"
  /\ Len(writeCalls[1].images) = Len(existingImages) + 1
  /\ livePreviews # {}

\* C15: a step of onDrop, removeNewImage or removeExistingImage issues no
\* object-store and no record-store operation, and before the first submit
\* no store operation has been issued at all, whatever the user removed.
C15_EditsAreLocal ==
  [][/\ (pc' = pc /\ <<existingImages, newImageFiles, imagesToDelete>>' #
                     <<existingImages, newImageFiles, imagesToDelete>>) =>
           UNCHANGED <<removeCalls, deleteState, uploadPath, uploadState,
                       writeCalls, writeState>>
     /\ submitCount' = 0 =>
           (removeCalls' = <<>> /\ uploadPath' = <<>> /\ writeCalls' = <<>>)]_vars

C15_Witness ==
  /\ submitCount = 0
  /\ imagesToDelete # <<>>
  /\ Len(newImageFiles) = 1
  /\ nextPreview = 2
  /\ removeCalls = <<>>

\* C20: no URL of the image list written by a submit has the derived
\* object-store path (products/ + last segment) of a delete issued in that
\* submit.
C20_WrittenNotDeleted ==
  \A k \in 1..Len(writeCalls) :
     \A u \in Range(writeCalls[k].images) :
        ExpectedDeletePath(u) \notin Range(removeCalls)

\* C12: when a submit whose store calls all succeeded follows, with no edit
\* in between, a submit whose store calls all succeeded, the existing-image
\* part of its written list (the list without the URLs uploaded in that run)
\* is the same sequence as in the earlier run.
C12_ExistingPartStable ==
  [][(/\ pc = "writing" /\ pc' = "idle"
      /\ lastRun.valid
      /\ writeState' = "ok"
      /\ \A i \in 1..Len(deleteState) : deleteState[i] # "err"
      /\ \A i \in 1..Len(uploadState) : uploadState[i] = "ok") =>
        Without(writeCalls[1].images, Range(SucceededUrls(Len(uploadState))))
           = lastRun.existing]_vars

C12_Witness ==
  /\ pc = "writing"
  /\ submitCount = 2
  /\ lastRun.valid
  /\ nextUuid >= 1
  /\ Len(existingImages) = 2
  /\ \A i \in 1..Len(deleteState) : deleteState[i] # "err"
  /\ \A i \in 1..Len(uploadState) : uploadState[i] = "ok"

\* C13: before the first submit, every addition of files lengthens
\* newImageFiles by the number of files added and every removeNewImage call
\* shortens it by one, so its length is additions minus removals; and the
\* preview released by a removal is held by no entry of newImageFiles.
C13_PendingUploadsCount ==
  [][submitCount = 0 /\ submitCount' = 0 =>
       /\ nextPreview' # nextPreview =>
             Len(newImageFiles') = Len(newImageFiles) + (nextPreview' - nextPreview)
       /\ livePreviews' # livePreviews /\ nextPreview' = nextPreview =>
             /\ Len(newImageFiles') = Len(newImageFiles) - 1
             /\ {newImageFiles'[i].preview : i \in 1..Len(newImageFiles')}
                   \subseteq livePreviews']_vars

C13_Witness ==
  /\ submitCount = 0
  /\ pc = "idle"
  /\ nextPreview = 2
  /\ livePreviews = {ObjectUrl(2)}
  /\ newImageFiles = <<[file |-> FilePng, preview |-> ObjectUrl(2)]>>

\* C18: a submit made from the edit view of a product id issues no insert:
\* every write it issues is an update keyed by that id.
C18_EditNeverInserts ==
  page.view = "edit" =>
    \A k \in 1..Len(writeCalls) :
       writeCalls[k].op = "update" /\ writeCalls[k].key = page.id

\* C19 as stated: when a record-store write succeeds, its image list
\* contains the URLs uploaded by earlier submits of the session whose write
\* failed, the oldest of them in particular.
C19_Original ==
  [][(pc = "writing" /\ writeState' = "ok") =>
        (unwritten # Null => unwritten \in Range(writeCalls[1].images))]_vars

\* C19 as amended: every URL whose upload succeeded in a submit is contained
\* in the image list of the record-store write issued by that same submit,
\* and a URL uploaded by an earlier submit whose write failed is not carried
\* over into it.
C19_UploadedWrittenBySameSubmit ==
  \A k \in 1..Len(writeCalls) :
     /\ \A i \in 1..Len(uploadState) :
           uploadState[i] = "ok" =>
              PublicUrl(uploadPath[i]) \in Range(writeCalls[k].images)
     /\ unwritten \in Range(writeCalls[k].images) =>
           \E i \in 1..Len(uploadState) :
              uploadState[i] = "ok" /\ unwritten = PublicUrl(uploadPath[i])

C19_Witness ==
  /\ pc = "writing"
  /\ submitCount = 2
  /\ \E i \in 1..Len(uploadState) : uploadState[i] = "ok"
  /\ unwritten # Null
  /\ unwritten \notin Range(writeCalls[1].images)

\* C16: every record passed to the record-store insert or update has a
\* non-negative price.
C16_PriceNonNegative ==
  \A k \in 1..Len(writeCalls) : writeCalls[k].price >= 0

\* C17: in the product list, once every issued delete has settled, no
\* product whose record-store delete succeeded is in the displayed products.
C17_DeletedNotDisplayed ==
  (\A k \in 1..Len(listDeletes) : listDeletes[k].state # "pending") =>
     \A k \in 1..Len(listDeletes) :
        listDeletes[k].state = "ok" => listDeletes[k].id \notin Range(products)

====
